---- MODULE Spec2Model ----
(***************************************************************************)
(* Monte Carlo and closed-form option pricers of the notebooks             *)
(*   a1-pricing-european-options.ipynb  (BS_call, BS_put, MC_call, MC_put) *)
(*   b1-pricing-asian-options.ipynb     (BS_asian_geometric_call,          *)
(*        MC_asian_geometric_call, MC_asian_arithmetic_call)               *)
(* as a state machine over the notebook kernel: the process-wide random    *)
(* stream (np.random.seed / np.random.standard_normal) and the value       *)
(* returned by the last pricer call.                                       *)
(*                                                                         *)
(* Numbers.  float64 values are modelled in fixed point: an integer x      *)
(* stands for x / Scale, so the finest step of the model is 10^-6 and the  *)
(* pricers' round(., 5) keeps one digit less than the values it rounds.    *)
(* Every library routine (np.exp, np.log, np.sqrt, norm.cdf, np.mean,      *)
(* np.std, gmean) is computed, in that fixed point, by what it does.       *)
(* NaN is not a number of the fixed point: a result carries a status.      *)
(***************************************************************************)
EXTENDS Integers, Sequences, FiniteSets, TLC

(***************************************************************************)
(* Fixed-point arithmetic                                                  *)
(***************************************************************************)
Scale == 10^6

Half == 10^3

Abs(x) == IF x < 0 THEN -x ELSE x

Sgn(x) == IF x < 0 THEN -1 ELSE 1

Max(a, b) == IF a >= b THEN a ELSE b

\* integer quotient rounded to the nearest integer (ties away from zero)
DivRound(a, b) ==
    Sgn(a) * Sgn(b)
    * ((Abs(a) \div Abs(b)) + (IF 2 * (Abs(a) % Abs(b)) >= Abs(b) THEN 1 ELSE 0))

\* a * b of two fixed-point numbers, rounded to the nearest step; the
\* product is formed from three-digit halves so that no intermediate value
\* leaves the 32-bit integers
FMul(a, b) ==
    LET x  == Abs(a)
        y  == Abs(b)
        xh == x \div Half
        xl == x % Half
        yh == y \div Half
        yl == y % Half
        lo == (xl * yl + (Scale \div 2)) \div Half
    IN  Sgn(a) * Sgn(b) * (xh * yh + (xh * yl + xl * yh + lo) \div Half)

RECURSIVE DivDigits(_, _, _)
\* the k decimal digits after the point of r / y, for 0 <= r < y
DivDigits(r, y, k) ==
    IF k = 0 THEN 0
    ELSE ((r * 10) \div y) * 10^(k - 1) + DivDigits((r * 10) % y, y, k - 1)

\* a / b of two fixed-point numbers (b # 0), truncated to the step
FDiv(a, b) ==
    LET x == Abs(a)
        y == Abs(b)
    IN  Sgn(a) * Sgn(b) * ((x \div y) * Scale + DivDigits(x % y, y, 6))

RECURSIVE NewtonSqrt(_, _)
NewtonSqrt(x, s) ==
    LET s2 == (s + FDiv(x, s)) \div 2
    IN  IF s2 >= s THEN s ELSE NewtonSqrt(x, s2)

\* np.sqrt for x >= 0
FSqrt(x) == IF x = 0 THEN 0 ELSE NewtonSqrt(x, x + Scale)

RECURSIVE ExpSeries(_, _, _)
\* sum of the terms x^j / j! for j >= k, given term = x^(k-1) / (k-1)!
ExpSeries(x, term, k) ==
    LET next == DivRound(FMul(term, x), k)
    IN  IF next = 0 THEN 0 ELSE next + ExpSeries(x, next, k + 1)

RECURSIVE FExp(_)
\* np.exp: the power series on [-1, 1], squaring outside it
FExp(x) ==
    IF Abs(x) <= Scale THEN Scale + ExpSeries(x, Scale, 1)
    ELSE LET h == FExp(DivRound(x, 2)) IN FMul(h, h)

RECURSIVE AtanhSeries(_, _, _, _)
\* sum of the terms z^j / j for odd j >= k, given pow = z^k
AtanhSeries(z2, pow, k, acc) ==
    IF pow = 0 THEN acc
    ELSE AtanhSeries(z2, FMul(pow, z2), k + 2, acc + DivRound(pow, k))

\* log of y in [1/2, 2]: 2 * atanh((y - 1) / (y + 1))
LnCore(y) ==
    LET z == FDiv(y - Scale, y + Scale)
    IN  2 * AtanhSeries(FMul(z, z), z, 1, 0)

Ln2 == LnCore(2 * Scale)

RECURSIVE FLn(_)
\* np.log for y > 0, reduced to [1/2, 2] by powers of two
FLn(y) ==
    IF y > 2 * Scale THEN Ln2 + FLn(DivRound(y, 2))
    ELSE IF 2 * y < Scale THEN FLn(2 * y) - Ln2
    ELSE LnCore(y)

\* the standard normal density exp(-x^2 / 2) / sqrt(2 pi)
NormPdf(x) == FMul(398942, FExp(-DivRound(FMul(x, x), 2)))

\* the upper tail 1 - Phi(x) for x >= 0 (Abramowitz-Stegun 26.2.17)
NormTail(x) ==
    LET t  == FDiv(Scale, Scale + FMul(231642, x))
        p5 == FMul(1330274, t)
        p4 == FMul(p5 - 1821256, t)
        p3 == FMul(p4 + 1781478, t)
        p2 == FMul(p3 - 356564, t)
        p1 == FMul(p2 + 319382, t)
    IN  FMul(NormPdf(x), p1)

\* scipy.stats.norm.cdf
NormCdf(x) == IF x >= 0 THEN Scale - NormTail(x) ELSE NormTail(-x)

\* np.mean of a non-empty sequence
RECURSIVE SumOver(_, _, _)
\* the sum of xs[lo .. hi], by halves as numpy adds
SumOver(xs, lo, hi) ==
    IF lo > hi THEN 0
    ELSE IF lo = hi THEN xs[lo]
    ELSE SumOver(xs, lo, (lo + hi) \div 2) + SumOver(xs, (lo + hi) \div 2 + 1, hi)

Sum(xs) == SumOver(xs, 1, Len(xs))

NpMean(xs) == DivRound(Sum(xs), Len(xs))

\* np.std as it would be with ddof = 1: the divisor n - 1
NpStdSample(xs) ==
    LET m == NpMean(xs)
    IN  IF Len(xs) < 2 THEN 0
        ELSE FSqrt(DivRound(Sum([i \in DOMAIN xs |-> FMul(xs[i] - m, xs[i] - m)]),
                            Len(xs) - 1))

\* np.std (ddof = 0): sqrt(mean(abs(x - x.mean()) ** 2))
NpStd(xs) ==
    LET m == NpMean(xs)
    IN  FSqrt(NpMean([i \in DOMAIN xs |-> FMul(xs[i] - m, xs[i] - m)]))

\* scipy.stats.mstats.gmean: exp(mean(log(a)))
GMean(xs) == FExp(NpMean([i \in DOMAIN xs |-> FLn(xs[i])]))

\* np.cumsum as it would be if it returned its argument: no running sum
CumSumNone(xs, acc) == xs

\* np.cumsum
RECURSIVE CumSum(_, _)
CumSum(xs, acc) ==
    IF xs = <<>> THEN <<>>
    ELSE <<acc + Head(xs)>> \o CumSum(Tail(xs), acc + Head(xs))

(***************************************************************************)
(* round(x, 5)                                                             *)
(***************************************************************************)
Decimals == 5

Unit == Scale \div 10^Decimals

\* round to Decimals places, a tie to the even digit
Round5(x) ==
    LET q == x \div Unit
        r == x % Unit
    IN  IF 2 * r < Unit THEN q * Unit
        ELSE IF 2 * r > Unit THEN (q + 1) * Unit
        ELSE IF q % 2 = 0 THEN q * Unit ELSE (q + 1) * Unit

(***************************************************************************)
(* Arguments of the pricers.  S0 is in whole currency units, K is a        *)
(* fixed-point number, r and sigma are in percent, T24 is the maturity in  *)
(* 24ths of a year.                                                        *)
(***************************************************************************)
Months == 12

TDen == 2 * Months

S0Fx(p) == p.S0 * Scale

KFx(p) == p.K

RFx(p) == (p.r * Scale) \div 100

SigmaFx(p) == (p.sigma * Scale) \div 100

TFx(p) == DivRound(p.T24 * Scale, TDen)

\* exp(-r * T)
Discount(p) == FExp(-FMul(RFx(p), TFx(p)))

(***************************************************************************)
(* The global random stream: np.random.seed sets the generator state,      *)
(* np.random.standard_normal advances it once per draw.                    *)
(***************************************************************************)
RngMod == 2^3

RngStates == 0 .. (RngMod - 1)

\* the standard normal values the stream yields (its 10, 30, 50, 70, 90%
\* quantiles)
ZValues == <<-1281552, -524401, 0, 524401, 1281552>>

SeedState(s) == s % RngMod

RngStep(x) == (5 * x + 3) % RngMod

RngOut(x) == ZValues[(x % Len(ZValues)) + 1]

RECURSIVE RngAfter(_, _)
\* the generator state after k draws
RngAfter(x, k) ==
    IF k = 0 THEN x
    ELSE IF k = 1 THEN RngStep(x)
    ELSE LET y == RngAfter(x, k \div 2)
         IN  IF y \in RngStates THEN RngAfter(y, k - (k \div 2)) ELSE y

\* np.random.standard_normal(size=k) from generator state x
StandardNormal(x, k) == [i \in 1 .. k |-> RngOut(RngAfter(x, i))]

(***************************************************************************)
(* What a pricer returns.  status "nan" stands for a returned NaN; X are   *)
(* the discounted payoffs, paths the simulated prices of each trial, times *)
(* the monitoring times of a path in 24ths of a year.                      *)
(***************************************************************************)
\* NaN, as an entry of X: a value no number of the fixed point takes, and
\* which no arithmetic is applied to
NaN == -(2^30)

HasNaN(xs) == \E i \in DOMAIN xs : xs[i] = NaN

NaNResult(X, paths, times) ==
    [status |-> "nan", price |-> 0, se |-> 0, rawPrice |-> 0, rawSe |-> 0,
     X |-> X, paths |-> paths, times |-> times]

\* the estimate as it would be if the last payoff were left out of it
EstimateWithoutLast(X, n, paths, times) ==
    IF n = 0 \/ HasNaN(X) THEN NaNResult(X, paths, times)
    ELSE LET Xs       == SubSeq(X, 1, Max(n - 1, 1))
             mc_price == NpMean(Xs)
             mc_se    == FDiv(NpStd(Xs), FSqrt(n * Scale))
         IN  [status |-> "ok", price |-> Round5(mc_price), se |-> Round5(mc_se),
              rawPrice |-> mc_price, rawSe |-> mc_se,
              X |-> Xs, paths |-> paths, times |-> times]

\* the estimate as it would be with the deviation divided by n
EstimateStdOverN(X, n, paths, times) ==
    IF n = 0 \/ HasNaN(X) THEN NaNResult(X, paths, times)
    ELSE LET mc_price == NpMean(X)
             mc_se    == FDiv(NpStd(X), n * Scale)
         IN  [status |-> "ok", price |-> Round5(mc_price), se |-> Round5(mc_se),
              rawPrice |-> mc_price, rawSe |-> mc_se,
              X |-> X, paths |-> paths, times |-> times]

\* price = np.mean(X), se = np.std(X) / np.sqrt(n), each rounded on return
Estimate(X, n, paths, times) ==
    IF n = 0 \/ HasNaN(X) THEN NaNResult(X, paths, times)
    ELSE LET mc_price == NpMean(X)
             mc_se    == FDiv(NpStd(X), FSqrt(n * Scale))
         IN  [status |-> "ok", price |-> Round5(mc_price), se |-> Round5(mc_se),
              rawPrice |-> mc_price, rawSe |-> mc_se,
              X |-> X, paths |-> paths, times |-> times]

\* a closed-form price, rounded on return
Exact(price) ==
    [status |-> "ok", price |-> Round5(price), se |-> 0, rawPrice |-> price,
     rawSe |-> 0, X |-> <<>>, paths |-> <<>>, times |-> <<>>]

\* nothing returned yet
NoResult ==
    [status |-> "none", price |-> 0, se |-> 0, rawPrice |-> 0, rawSe |-> 0,
     X |-> <<>>, paths |-> <<>>, times |-> <<>>]

(***************************************************************************)
(* a1-pricing-european-options.ipynb                                       *)
(***************************************************************************)
\* bs_call_price, before the round of the return statement
BS_call_price(p) ==
    LET sigma == SigmaFx(p)
        sqrtT == FSqrt(TFx(p))
        theta == FMul(FDiv(Scale, FMul(sigma, sqrtT)), FLn(FDiv(KFx(p), S0Fx(p))))
                 + FMul(FMul(Scale \div 2, sigma) - FDiv(RFx(p), sigma), sqrtT)
    IN  FMul(S0Fx(p), NormCdf(FMul(sigma, sqrtT) - theta))
        - FMul(FMul(KFx(p), Discount(p)), NormCdf(-theta))

BS_call(p) == Exact(BS_call_price(p))

\* bs_put_price as it would be with the strike left undiscounted
BS_put_price_undiscounted(p) == BS_call(p).price - S0Fx(p) + KFx(p)

\* bs_put_price: put-call parity on the value BS_call returns
BS_put_price(p) == BS_call(p).price - S0Fx(p) + FMul(KFx(p), Discount(p))

BS_put(p) == Exact(BS_put_price(p))

\* Y = S_0 * exp((r - sigma^2 / 2) * T + sigma * sqrt(T) * Z)
TerminalPrice(p, z) ==
    LET sigma == SigmaFx(p)
        drift == RFx(p) - FMul(Scale \div 2, FMul(sigma, sigma))
    IN  FMul(S0Fx(p), FExp(FMul(drift, TFx(p)) + FMul(FMul(sigma, FSqrt(TFx(p))), z)))

\* X = exp(-r * T) * maximum(Y - K, 0)
CallPayoff(p, y) == FMul(Discount(p), Max(y - KFx(p), 0))

\* the put payoff as it would be without the maximum
PutPayoffUnfloored(p, y) == FMul(Discount(p), KFx(p) - y)

\* X = exp(-r * T) * maximum(K - Y, 0)
PutPayoff(p, y) == FMul(Discount(p), Max(KFx(p) - y, 0))

\* the n one-step paths of the European pricers, from generator state x
EuropeanPaths(p, n, x) ==
    LET Z == StandardNormal(x, n)
    IN  [i \in 1 .. n |-> <<TerminalPrice(p, Z[i])>>]

MC_call(p, n, x) ==
    LET Y == EuropeanPaths(p, n, x)
        X == [i \in 1 .. n |-> CallPayoff(p, Y[i][1])]
    IN  Estimate(X, n, Y, <<p.T24>>)

MC_put(p, n, x) ==
    LET Y == EuropeanPaths(p, n, x)
        X == [i \in 1 .. n |-> PutPayoff(p, Y[i][1])]
    IN  Estimate(X, n, Y, <<p.T24>>)

(***************************************************************************)
(* b1-pricing-asian-options.ipynb                                          *)
(***************************************************************************)
\* t as it would be with np.ceil: the partial month counted
MonitoringCountCeil(p) == (Months * p.T24 + TDen - 1) \div TDen

\* t = np.floor(12 * T)
MonitoringCount(p) == (Months * p.T24) \div TDen

\* the step of every column, 1/12 of a year, in 24ths
StepLen == TDen \div Months

\* the monitoring times the cumulative sum over t columns stands for
MonitoringTimes(p) == [j \in 1 .. MonitoringCount(p) |-> j * StepLen]

\* one entry of Z: (r - sigma^2 / 2) * (1/12) + sigma * (1 / sqrt(12)) * draw
LogIncrement(p, z) ==
    LET sigma == SigmaFx(p)
        drift == RFx(p) - FMul(Scale \div 2, FMul(sigma, sigma))
    IN  FMul(drift, DivRound(Scale, Months))
        + FMul(FMul(sigma, FDiv(Scale, FSqrt(Months * Scale))), z)

\* Y = S_0 * exp(cumsum(Z, axis=1)): n rows of t prices, the draws taken
\* row by row from generator state x
AsianPaths(p, n, x) ==
    LET t     == MonitoringCount(p)
        draws == StandardNormal(x, n * t)
    IN  [i \in 1 .. n |->
            LET Z == [j \in 1 .. t |-> LogIncrement(p, draws[(i - 1) * t + j])]
                W == CumSum(Z, 0)
            IN  [j \in 1 .. t |-> FMul(S0Fx(p), FExp(W[j]))]]

\* exp(-r * T) * maximum(X1 - K, 0); the mean of an empty row is NaN
AsianPayoff(p, x1) ==
    IF x1 = NaN THEN NaN ELSE FMul(Discount(p), Max(x1 - KFx(p), 0))

MC_asian_geometric_call(p, n, x) ==
    LET Y  == AsianPaths(p, n, x)
        X1 == [i \in 1 .. n |-> IF Y[i] = <<>> THEN NaN ELSE GMean(Y[i])]
        X  == [i \in 1 .. n |-> AsianPayoff(p, X1[i])]
    IN  Estimate(X, n, Y, MonitoringTimes(p))

MC_asian_arithmetic_call(p, n, x) ==
    LET Y  == AsianPaths(p, n, x)
        X1 == [i \in 1 .. n |-> IF Y[i] = <<>> THEN NaN ELSE NpMean(Y[i])]
        X  == [i \in 1 .. n |-> AsianPayoff(p, X1[i])]
    IN  Estimate(X, n, Y, MonitoringTimes(p))

\* t_bar as it would be without the 1: t / 24
t_bar_of_half(p) == DivRound(MonitoringCount(p) * Scale, 2 * Months)

\* t_bar = (t + 1) / 24
t_bar_of(p) == DivRound((MonitoringCount(p) + 1) * Scale, 2 * Months)

\* the square of sigma_bar: sigma^2 / t^2 * 1/72 * t * (t + 1) * (2 * t + 1),
\* the factors multiplied before the division so that the fixed point keeps
\* the digits float64 keeps
sigma_bar_sq_of(p) ==
    LET t == MonitoringCount(p)
    IN  DivRound(FMul(SigmaFx(p), SigmaFx(p)) * (t * (t + 1) * (2 * t + 1)), 72 * t * t)

\* bs_asian_geometric_call_price, before the round of the return statement
BS_asian_geometric_call_price(p) ==
    LET sigma     == SigmaFx(p)
        t_bar     == t_bar_of(p)
        mu_bar    == FLn(S0Fx(p)) + FMul(RFx(p) - FMul(Scale \div 2, FMul(sigma, sigma)), t_bar)
        sigma_bar == FSqrt(sigma_bar_sq_of(p))
        theta     == FMul(FDiv(Scale, sigma_bar), FLn(KFx(p)) - mu_bar)
    IN  FMul(Discount(p),
             FMul(FExp(mu_bar + FMul(Scale \div 2, FMul(sigma_bar, sigma_bar))),
                  NormCdf(sigma_bar - theta))
             - FMul(KFx(p), NormCdf(-theta)))

\* with t = 0 the quotient sigma^2 / t^2 is inf and inf * 0 is NaN
BS_asian_geometric_call(p) ==
    IF MonitoringCount(p) = 0 THEN NaNResult(<<>>, <<>>, <<>>)
    ELSE Exact(BS_asian_geometric_call_price(p))

(***************************************************************************)
(* The notebook kernel                                                     *)
(***************************************************************************)
\* bounds of the model: the largest number of trials of a call, and the
\* number of draws taken from the stream after which no call is made
MaxN == 2

MaxDraws == 6

\* the same, in the sessions that keep an earlier call
MaxPairDraws == 4

\* the notebooks' market, S_0 = 50, r = 0.05, sigma = 0.2
Option(k, t) == [S0 |-> 50, r |-> 5, sigma |-> 20, K |-> k * Scale, T24 |-> t]

\* strikes around the money and maturities of 1/24 (no whole month), 1/12,
\* 7/24 (three months and a part) and 1/2 year; with a strike that is no
\* multiple of 10, K * exp(-r * T) has a sixth decimal digit in the fixed
\* point, as it has in float64
Params == {Option(48, 1), Option(48, 2), Option(49, 7), Option(45, 12)}

\* arguments outside the spec's preconditions that a caller can pass
BadParams == {[S0 |-> 50, r |-> 5, sigma |-> -20, K |-> 40 * Scale, T24 |-> 6]}

AllParams == Params \cup BadParams

Trials == 0 .. MaxN

\* the arguments of the sessions that keep an earlier call
PairParams == {Option(48, 2), Option(49, 7)}

PairTrials == 1 .. MaxN

Seeds == {2019, 7}

\* no np.random.seed call yet: the generator holds the entropy it started with
Unseeded == -1

Entropy == {1, 6}

MCFns == {"MC_call", "MC_put", "MC_asian_geometric_call", "MC_asian_arithmetic_call"}

AsianMCFns == {"MC_asian_geometric_call", "MC_asian_arithmetic_call"}

\* the size argument as it would be if a closed-form pricer drew a normal
DrawsOfClosedFormToo(fn, p, n) ==
    IF fn \in {"MC_call", "MC_put"} THEN n
    ELSE IF fn \in AsianMCFns THEN n * MonitoringCount(p)
    ELSE IF fn = "MC_call_antithetic" THEN n \div 2
    ELSE IF fn = "MC_asian_arithmetic_call_control_variate" THEN n * MonitoringCount(p)
    ELSE 1

\* the size argument as it would be if every pricer drew one normal for
\* each trial
DrawsOfRows(fn, p, n) ==
    IF fn \in {"MC_call", "MC_put"} \cup AsianMCFns THEN n
    ELSE IF fn = "MC_call_antithetic" THEN n \div 2
    ELSE IF fn = "MC_asian_arithmetic_call_control_variate" THEN n * MonitoringCount(p)
    ELSE 0

\* the size argument of np.random.standard_normal
DrawsOf(fn, p, n) ==
    IF fn \in {"MC_call", "MC_put"} THEN n
    ELSE IF fn \in AsianMCFns THEN n * MonitoringCount(p)
    ELSE IF fn = "MC_call_antithetic" THEN n \div 2
    ELSE IF fn = "MC_asian_arithmetic_call_control_variate" THEN n * MonitoringCount(p)
    ELSE 0

\* Every pricer is a function of its arguments and of the generator state it
\* starts from; each is tabulated once over the arguments the kernel passes.
BS_call_table == [p \in AllParams |-> BS_call(p)] @@ <<>>

BS_put_table == [p \in AllParams |-> BS_put(p)] @@ <<>>

BS_asian_geometric_call_table == [p \in AllParams |-> BS_asian_geometric_call(p)] @@ <<>>

MC_call_table ==
    [p \in AllParams, n \in Trials, x \in RngStates |-> MC_call(p, n, x)] @@ <<>>

MC_put_table ==
    [p \in AllParams, n \in Trials, x \in RngStates |-> MC_put(p, n, x)] @@ <<>>

MC_asian_geometric_call_table ==
    [p \in AllParams, n \in Trials, x \in RngStates |->
        IF n * MonitoringCount(p) <= MaxDraws
        THEN MC_asian_geometric_call(p, n, x) ELSE NoResult] @@ <<>>

MC_asian_arithmetic_call_table ==
    [p \in AllParams, n \in Trials, x \in RngStates |->
        IF n * MonitoringCount(p) <= MaxDraws
        THEN MC_asian_arithmetic_call(p, n, x) ELSE NoResult] @@ <<>>

VARIABLES
    rng,    \* state of the global generator
    seed,   \* argument of the last np.random.seed, or Unseeded
    pos,    \* draws taken from the stream since then
    last,   \* the last pricer call: its arguments, where it found the stream, its result
    prev,   \* an earlier call, in the sessions that keep one
    sweep   \* the comparison cell that is running or has run: its lists and its place

vars == <<rng, seed, pos, last, prev, sweep>>

NoCall ==
    [fn |-> "none", p |-> Option(48, 2), n |-> 0, seed |-> Unseeded, pos |-> 0,
     at |-> 0, draws |-> 0, res |-> NoResult]

\* no comparison cell has run
NoSweep ==
    [pc |-> "idle", fn |-> "none", p |-> Option(48, 2), bs_price |-> NoResult,
     rows |-> <<>>]

Init ==
    /\ rng \in Entropy
    /\ seed = Unseeded
    /\ pos = 0
    /\ last = NoCall
    /\ prev = NoCall
    /\ sweep = NoSweep

\* np.random.seed as it would be if it left the generator where it was
NpRandomSeedStale(s) ==
    /\ rng' = rng
    /\ seed' = s
    /\ pos' = 0
    /\ UNCHANGED <<last, prev>>

\* np.random.seed(s)
NpRandomSeed(s) ==
    /\ rng' = SeedState(s)
    /\ seed' = s
    /\ pos' = 0
    /\ UNCHANGED <<last, prev>>

\* one call of pricer fn, which returns res, in session s: it finds the
\* stream where the earlier calls left it and takes its draws from there;
\* prev keeps the call that was the last one, or stays, as the session allows
Invoke(fn, p, n, res, s) ==
    /\ pos + DrawsOf(fn, p, n) <= s.draws
    /\ last' = [fn |-> fn, p |-> p, n |-> n, seed |-> seed, pos |-> pos, at |-> rng,
                draws |-> DrawsOf(fn, p, n), res |-> res]
    /\ rng' = RngAfter(rng, DrawsOf(fn, p, n))
    /\ pos' = pos + DrawsOf(fn, p, n)
    /\ seed' = seed
    /\ prev' \in {IF k THEN last ELSE prev : k \in s.keep}

Seed == (\E s \in Seeds : NpRandomSeed(s)) /\ UNCHANGED sweep

Call_BS_call(s) ==
    /\ \E p \in s.args : Invoke("BS_call", p, 0, BS_call_table[p], s)
    /\ UNCHANGED sweep

Call_BS_put(s) ==
    /\ \E p \in s.args : Invoke("BS_put", p, 0, BS_put_table[p], s)
    /\ UNCHANGED sweep

Call_BS_asian_geometric_call(s) ==
    /\ \E p \in s.args :
           Invoke("BS_asian_geometric_call", p, 0, BS_asian_geometric_call_table[p], s)
    /\ UNCHANGED sweep

Call_MC_call(s) ==
    /\ \E p \in s.args, n \in s.trials :
           Invoke("MC_call", p, n, MC_call_table[p, n, rng], s)
    /\ UNCHANGED sweep

Call_MC_put(s) ==
    /\ \E p \in s.args, n \in s.trials :
           Invoke("MC_put", p, n, MC_put_table[p, n, rng], s)
    /\ UNCHANGED sweep

Call_MC_asian_geometric_call(s) ==
    /\ \E p \in s.args, n \in s.trials :
           Invoke("MC_asian_geometric_call", p, n,
                  MC_asian_geometric_call_table[p, n, rng], s)
    /\ UNCHANGED sweep

Call_MC_asian_arithmetic_call(s) ==
    /\ \E p \in s.args, n \in s.trials :
           Invoke("MC_asian_arithmetic_call", p, n,
                  MC_asian_arithmetic_call_table[p, n, rng], s)
    /\ UNCHANGED sweep

\* the cells of a session call the pricers and seed the stream in any order
Cells(s) ==
    \/ Seed
    \/ Call_BS_call(s)
    \/ Call_BS_put(s)
    \/ Call_BS_asian_geometric_call(s)
    \/ Call_MC_call(s)
    \/ Call_MC_put(s)
    \/ Call_MC_asian_geometric_call(s)
    \/ Call_MC_asian_arithmetic_call(s)

\* a session calling the pricers with any of the arguments
Session == [args |-> AllParams, trials |-> Trials, keep |-> {FALSE}, draws |-> MaxDraws]

Next == Cells(Session)

Spec == Init /\ [][Next]_vars

\* a session over fewer arguments that keeps one earlier call
PairSession ==
    [args |-> PairParams, trials |-> PairTrials, keep |-> BOOLEAN, draws |-> MaxPairDraws]

NextPair == Cells(PairSession)

SpecPair == Init /\ [][NextPair]_vars

\* a session of the Asian notebook, whose cells call the three Asian pricers:
\* it keeps one earlier call, and its maturities are those of no whole month,
\* of one month and of three months and a part
AsianParams == {Option(48, 1), Option(48, 2), Option(49, 7)}

AsianSession ==
    [args |-> AsianParams, trials |-> PairTrials, keep |-> BOOLEAN, draws |-> MaxPairDraws]

NextAsian ==
    \/ Seed
    \/ Call_BS_asian_geometric_call(AsianSession)
    \/ Call_MC_asian_geometric_call(AsianSession)
    \/ Call_MC_asian_arithmetic_call(AsianSession)

SpecAsian == Init /\ [][NextAsian]_vars

(***************************************************************************)
(* The comparison cells of the notebooks: np.random.seed(2019), the list   *)
(* of sample sizes, the closed-form column, one Monte Carlo call for each  *)
(* sample size in order, and the table of the three columns.               *)
(***************************************************************************)
SweepSeed == 2019

\* sample_size, scaled down: it keeps rows a hundred times apart
sample_size == <<1, 2, 100, 200>>

SweepParams == {Option(48, 2), Option(49, 7)}

\* the Monte Carlo pricer fn called from generator state x
RunMC(fn, p, n, x) ==
    CASE fn = "MC_call" -> MC_call(p, n, x)
      [] fn = "MC_put" -> MC_put(p, n, x)
      [] fn = "MC_asian_geometric_call" -> MC_asian_geometric_call(p, n, x)
      [] fn = "MC_asian_arithmetic_call" -> MC_asian_arithmetic_call(p, n, x)

\* the pricer that fills bs_price in the cell of fn; the cell of the
\* arithmetic Asian call has none
ClosedFormOf(fn) ==
    CASE fn = "MC_call" -> "BS_call"
      [] fn = "MC_put" -> "BS_put"
      [] fn = "MC_asian_geometric_call" -> "BS_asian_geometric_call"
      [] fn = "MC_asian_arithmetic_call" -> "none"

\* bs_price of the cell of the arithmetic Asian call as it would be if the
\* cell of the geometric one had been copied unchanged
BsPriceCopied(fn, p) ==
    IF fn = "MC_call" THEN BS_call(p)
    ELSE IF fn = "MC_put" THEN BS_put(p)
    ELSE BS_asian_geometric_call(p)

\* bs_price: np.repeat of the closed-form price, np.repeat(np.nan, 4) in the
\* cell of the arithmetic Asian call
BsPrice(fn, p) ==
    CASE fn = "MC_call" -> BS_call(p)
      [] fn = "MC_put" -> BS_put(p)
      [] fn = "MC_asian_geometric_call" -> BS_asian_geometric_call(p)
      [] fn = "MC_asian_arithmetic_call" -> NaNResult(<<>>, <<>>, <<>>)

SweepSession ==
    [args |-> SweepParams, trials |-> {sample_size[i] : i \in DOMAIN sample_size},
     keep |-> {FALSE}, draws |-> Sum(sample_size) * Months]

\* np.random.seed(2019); sample_size = [...]; mc_estimates = []; mc_se = []
Sweep_seed ==
    /\ sweep.pc \in {"idle", "df"}
    /\ NpRandomSeed(SweepSeed)
    /\ \E fn \in MCFns, p \in SweepParams :
           sweep' = [pc |-> "bs_price", fn |-> fn, p |-> p, bs_price |-> NoResult,
                     rows |-> <<>>]

\* bs_price = np.repeat(<closed form>(...), len(sample_size))
Sweep_bs_price ==
    /\ sweep.pc = "bs_price"
    /\ ClosedFormOf(sweep.fn) # "none"
    /\ Invoke(ClosedFormOf(sweep.fn), sweep.p, 0, BsPrice(sweep.fn, sweep.p), SweepSession)
    /\ sweep' = [sweep EXCEPT !.pc = "for", !.bs_price = last'.res]

\* bs_price = np.repeat(np.nan, len(sample_size))
Sweep_bs_price_nan ==
    /\ sweep.pc = "bs_price"
    /\ ClosedFormOf(sweep.fn) = "none"
    /\ sweep' = [sweep EXCEPT !.pc = "for", !.bs_price = BsPrice(sweep.fn, sweep.p)]
    /\ UNCHANGED <<rng, seed, pos, last, prev>>

\* one pass of the loop: mc_call = <pricer>(..., int(n)) and the two appends
Sweep_mc_call ==
    /\ sweep.pc = "for"
    /\ Len(sweep.rows) < Len(sample_size)
    /\ LET n == sample_size[Len(sweep.rows) + 1]
       IN  /\ Invoke(sweep.fn, sweep.p, n, RunMC(sweep.fn, sweep.p, n, rng), SweepSession)
           /\ sweep' = [sweep EXCEPT !.rows =
                            Append(@, [n |-> n, bs_price |-> sweep.bs_price,
                                       mc_call |-> last'.res])]

\* df = pd.DataFrame(...): the table of the cell, one row for each sample size
Sweep_df ==
    /\ sweep.pc = "for"
    /\ Len(sweep.rows) = Len(sample_size)
    /\ sweep' = [sweep EXCEPT !.pc = "df"]
    /\ UNCHANGED <<rng, seed, pos, last, prev>>

NextSweep ==
    \/ Sweep_seed
    \/ Sweep_bs_price
    \/ Sweep_bs_price_nan
    \/ Sweep_mc_call
    \/ Sweep_df

SpecSweep == Init /\ [][NextSweep]_vars

(***************************************************************************)
(* A call that is stopped before its return statement, by an interrupt of  *)
(* the kernel or an error of an array operation, returns nothing; the      *)
(* draws it had taken by then are gone from the stream.                    *)
(***************************************************************************)
Call_interrupted(s) ==
    /\ \E fn \in MCFns, p \in s.args, n \in s.trials, drawn \in BOOLEAN :
           LET taken == IF drawn THEN DrawsOf(fn, p, n) ELSE 0
           IN  /\ pos + DrawsOf(fn, p, n) <= s.draws
               /\ last' = [fn |-> fn, p |-> p, n |-> n, seed |-> seed, pos |-> pos,
                           at |-> rng, draws |-> taken, res |-> NoResult]
               /\ rng' = RngAfter(rng, taken)
               /\ pos' = pos + taken
    /\ UNCHANGED <<seed, prev, sweep>>

NextInterrupted ==
    \/ Cells(Session)
    \/ Call_interrupted(Session)

SpecInterrupted == Init /\ [][NextInterrupted]_vars

(***************************************************************************)
(* The variance-reduction notebooks A2 and B2 of the README, which the     *)
(* sources at hand do not contain: antithetic sampling for the European    *)
(* call and the geometric control variate for the arithmetic Asian call,   *)
(* as the specification describes them, written in the manner of a1 and b1 *)
(***************************************************************************)
\* the antithetic paths as they would be with the counterpart redrawn:
\* a second draw in place of the negated one
AntitheticPathsRedrawn(p, pairs, x) ==
    LET Z == StandardNormal(x, 2 * pairs)
    IN  [i \in 1 .. 2 * pairs |-> <<TerminalPrice(p, Z[i])>>]

\* the paths of n / 2 draws, each followed by the path of the negated draw
AntitheticPaths(p, pairs, x) ==
    LET Z == StandardNormal(x, pairs)
    IN  [i \in 1 .. 2 * pairs |->
            <<TerminalPrice(p, IF i % 2 = 1 THEN Z[(i + 1) \div 2] ELSE -Z[i \div 2])>>]

\* the average of the payoffs of a path and of its counterpart is one
\* sample; the count of the estimate is the number of pairs
MC_call_antithetic(p, n, x) ==
    LET pairs == n \div 2
        Y     == AntitheticPaths(p, pairs, x)
        X     == [i \in 1 .. pairs |->
                     DivRound(CallPayoff(p, Y[2 * i - 1][1]) + CallPayoff(p, Y[2 * i][1]), 2)]
    IN  [count |-> pairs] @@ Estimate(X, pairs, Y, <<p.T24>>)

\* the sample covariance of xs and ys about their means
NpCov(xs, ys) ==
    LET mx == NpMean(xs)
        my == NpMean(ys)
    IN  NpMean([i \in DOMAIN xs |-> FMul(xs[i] - mx, ys[i] - my)])

\* b: fixed at 1, or the covariance of X and Y over the variance of Y
Coefficient(policy, X, Y) ==
    IF policy = "fixed" \/ NpCov(Y, Y) = 0 THEN Scale
    ELSE FDiv(NpCov(X, Y), NpCov(Y, Y))

\* the geometric payoffs as they would be on paths of their own, simulated
\* from the draws after those of the arithmetic payoffs
ControlPathsOwn(p, n, x) == AsianPaths(p, n, RngAfter(x, n * MonitoringCount(p)))

\* the paths the geometric payoffs are computed on: those of the arithmetic ones
ControlPaths(p, n, x) == AsianPaths(p, n, x)

\* X the arithmetic and Y the geometric payoff of each path; the estimate is
\* mean(X) - b * (mean(Y) - E[Y]), E[Y] the value of BS_asian_geometric_call
MC_asian_arithmetic_call_control_variate(p, n, x, policy) ==
    LET paths == AsianPaths(p, n, x)
        other == ControlPaths(p, n, x)
        X     == [i \in 1 .. n |-> AsianPayoff(p, IF paths[i] = <<>> THEN NaN ELSE NpMean(paths[i]))]
        Y     == [i \in 1 .. n |-> AsianPayoff(p, IF other[i] = <<>> THEN NaN ELSE GMean(other[i]))]
        EY    == BS_asian_geometric_call(p)
    IN  IF n = 0 \/ HasNaN(X) \/ HasNaN(Y) \/ EY.status # "ok"
        THEN [count |-> n, Y |-> Y, b |-> 0, EY |-> 0] @@ NaNResult(X, paths, MonitoringTimes(p))
        ELSE LET b        == Coefficient(policy, X, Y)
                 adjusted == [i \in 1 .. n |-> X[i] - FMul(b, Y[i] - EY.price)]
                 mc_price == NpMean(X) - FMul(b, NpMean(Y) - EY.price)
                 mc_se    == FDiv(NpStd(adjusted), FSqrt(n * Scale))
             IN  [status |-> "ok", price |-> Round5(mc_price), se |-> Round5(mc_se),
                  rawPrice |-> mc_price, rawSe |-> mc_se, X |-> X, paths |-> paths,
                  times |-> MonitoringTimes(p), count |-> n, Y |-> Y, b |-> b,
                  EY |-> EY.price]

Policies == {"fixed", "empirical"}

Call_MC_call_antithetic(s) ==
    /\ \E p \in s.args, pairs \in s.trials :
           Invoke("MC_call_antithetic", p, 2 * pairs,
                  MC_call_antithetic(p, 2 * pairs, rng), s)
    /\ UNCHANGED sweep

Call_MC_asian_arithmetic_call_control_variate(s) ==
    /\ \E p \in s.args, n \in s.trials, policy \in Policies :
           Invoke("MC_asian_arithmetic_call_control_variate", p, n,
                  MC_asian_arithmetic_call_control_variate(p, n, rng, policy), s)
    /\ UNCHANGED sweep

\* a session of the variance-reduction notebooks
ReductionSession ==
    [args |-> PairParams, trials |-> PairTrials, keep |-> {FALSE}, draws |-> MaxDraws]

NextReduction ==
    \/ Seed
    \/ Call_MC_call_antithetic(ReductionSession)
    \/ Call_MC_asian_arithmetic_call_control_variate(ReductionSession)

SpecReduction == Init /\ [][NextReduction]_vars

(***************************************************************************)
(* round() on a float64.  A decimal number whose sixth digit is a 5 with   *)
(* nothing after it is no float64: the float64 nearest to it lies below or *)
(* above it, and round(x, 5) goes to that side.  The fixed point holds the *)
(* decimal number and cannot tell the side, so both sides are outcomes.    *)
(***************************************************************************)
Sides == {"below", "above"}

\* round(x, 5) of the float64 nearest to x
RoundFloat(x, side) ==
    IF 2 * (x % Unit) = Unit
    THEN ((x \div Unit) + (IF side = "above" THEN 1 ELSE 0)) * Unit
    ELSE Round5(x)

\* a closed-form price, rounded on return as a float64
ExactFloat(price, side) == [Exact(price) EXCEPT !.price = RoundFloat(price, side)]

BS_call_float(p, side) == ExactFloat(BS_call_price(p), side)

\* put-call parity on the value BS_call returns, rounded again on return
BS_put_float(p, side_call, side_put) ==
    ExactFloat(BS_call_float(p, side_call).price - S0Fx(p) + FMul(KFx(p), Discount(p)),
               side_put)

\* puts far out of the money: S_0 = 10, r = 0, sigma = 0.2, T = 1 and a strike
\* of k millionths
DeepOption(k) == [S0 |-> 10, r |-> 0, sigma |-> 20, K |-> k, T24 |-> TDen]

\* strikes of 0.005, 0.005005, 0.008005 and 0.02, and a put of the notebooks'
\* market near the money
DeepParams ==
    {DeepOption(5000), DeepOption(5005), DeepOption(8005), DeepOption(20000),
     Option(45, 12)}

Call_BS_call_float(s) ==
    /\ \E p \in s.args, side \in Sides :
           Invoke("BS_call", p, 0, BS_call_float(p, side), s)
    /\ UNCHANGED sweep

Call_BS_put_float(s) ==
    /\ \E p \in s.args, side_call \in Sides, side_put \in Sides :
           Invoke("BS_put", p, 0, BS_put_float(p, side_call, side_put), s)
    /\ UNCHANGED sweep

\* a session that prices European options in closed form
FloatSession == [args |-> DeepParams, trials |-> {0}, keep |-> {FALSE}, draws |-> 0]

NextFloat ==
    \/ Seed
    \/ Call_BS_call_float(FloatSession)
    \/ Call_BS_put_float(FloatSession)

SpecFloat == Init /\ [][NextFloat]_vars

(***************************************************************************)
(* The claims                                                              *)
(***************************************************************************)
\* the preconditions of the spec: S_0, sigma, K and T positive, n >= 1
ValidParams(p) == p.S0 > 0 /\ p.sigma > 0 /\ p.K > 0 /\ p.T24 > 0

ValidCall(c) == ValidParams(c.p) /\ (c.fn \in MCFns => c.n >= 1)

\* prev and last are calls of f and g with the same arguments
SameArgs(f, g) ==
    /\ prev.fn = f
    /\ last.fn = g
    /\ prev.p = last.p
    /\ prev.n = last.n

\* ... made under the same explicit seed
SameSeed == last.seed # Unseeded /\ prev.seed = last.seed

SameOutput ==
    /\ prev.res.status = last.res.status
    /\ prev.res.price = last.res.price
    /\ prev.res.se = last.res.se

\* BS_call - BS_put - (S_0 - K * exp(-r * T)) on the returned values
ParityGap == prev.res.price - last.res.price
             - (S0Fx(last.p) - FMul(KFx(last.p), Discount(last.p)))

C1_Case == SameArgs("BS_call", "BS_put") /\ ValidParams(last.p)

\* C1 (as amended): for valid arguments the values BS_call and BS_put return
\* satisfy put-call parity to within half a unit of the fifth decimal place,
\* the rounding of the returned put price
C1_ParityWithinRounding == C1_Case => 2 * Abs(ParityGap) <= Unit

\* C1 (as claimed): the returned values satisfy put-call parity exactly, one
\* step of the fixed point standing for the floating-point tolerance
C1_ParityExact == C1_Case => Abs(ParityGap) <= 1

C1_Witness == C1_Case /\ Abs(ParityGap) > 1

\* the standard deviation of xs with divisor Len(xs) - ddof
StdDev(xs, ddof) ==
    LET m == DivRound(Sum(xs), Len(xs))
    IN  FSqrt(DivRound(Sum([i \in DOMAIN xs |-> FMul(xs[i] - m, xs[i] - m)]),
                       Len(xs) - ddof))

\* the price and the standard error before rounding are the mean of the n
\* payoffs and their standard deviation with divisor n - ddof over sqrt(n)
MeanAndStdError(ddof) ==
    /\ Len(last.res.X) = last.n
    /\ last.res.rawPrice = DivRound(Sum(last.res.X), last.n)
    /\ last.res.rawSe = FDiv(StdDev(last.res.X, ddof), FSqrt(last.n * Scale))

C2_Case == last.fn \in MCFns /\ last.n >= 1 /\ last.res.status = "ok"

\* C2 (as amended): for each Monte Carlo pricer called with n trials the price
\* before rounding is the mean of the n discounted payoffs and the standard
\* error before rounding is their standard deviation with divisor n (np.std,
\* ddof = 0) divided by sqrt(n)
C2_PopulationStdError == C2_Case => MeanAndStdError(0)

\* C2 (as claimed): the standard deviation has divisor n - 1
C2_SampleStdError == (C2_Case /\ last.n >= 2) => MeanAndStdError(1)

C2_Witness == C2_Case /\ last.n >= 2 /\ last.res.rawSe > 0

C3_Case == \E f \in MCFns : SameArgs(f, f) /\ SameSeed

\* C3 (as amended): two invocations of a Monte Carlo pricer with identical
\* arguments under the same seed return the identical (price, standard error)
\* when the same number of draws was taken from the stream between the seeding
\* and each invocation
C3_DeterministicAtPosition == (C3_Case /\ prev.pos = last.pos) => SameOutput

\* C3 (as claimed): they return the identical (price, standard error) whatever
\* other pricing calls were made between seeding and the invocation
C3_DeterministicUnderSeed == C3_Case => SameOutput

C3_Witness ==
    /\ C3_Case
    /\ prev.pos = last.pos
    /\ last.pos > 0
    /\ last.res.status = "ok"
    /\ last.res.se > 0

\* MC_call, then MC_put with the same arguments, under the same seed and from
\* the same place of the stream
C4_Case == SameArgs("MC_call", "MC_put") /\ SameSeed /\ prev.pos = last.pos

\* the mean of the simulated terminal prices of the last call
MeanTerminal == NpMean([i \in 1 .. last.n |-> last.res.paths[i][1]])

\* C4 (as amended): MC_put is a simulation of its own: it takes n draws, and
\* from the same place of the same stream as MC_call it simulates the same
\* terminal prices and returns the price MC_call returns plus
\* exp(-r*T) * (K - mean(S_T)), to within two units of the fifth decimal place
C4_PutFromOwnSimulation ==
    C4_Case =>
        /\ last.draws = last.n
        /\ last.res.paths = prev.res.paths
        /\ Abs(last.res.price - prev.res.price
               - FMul(Discount(last.p), KFx(last.p) - MeanTerminal)) <= 2 * Unit

\* C4 (as claimed): the price MC_put returns is the price MC_call returns plus
\* K*exp(-r*T) - S_0 (here even from the same place of the stream, and to
\* within two units of the fifth decimal place)
C4_PutByParity ==
    C4_Case =>
        Abs(last.res.price - prev.res.price
            - (FMul(KFx(last.p), Discount(last.p)) - S0Fx(last.p))) <= 2 * Unit

C4_Witness == C4_Case /\ prev.res.price > 0 /\ last.res.price > 0

\* C5: a call with an invalid parameter (non-positive sigma, T, S_0 or K, or
\* n < 1) returns no price and consumes no draw
C5_InvalidRejected ==
    (last.fn # "none" /\ ~ValidCall(last)) =>
        (last.res.status \notin {"ok", "nan"} /\ last.draws = 0)

\* C6: the price BS_put returns is the unrounded call price minus S_0 plus
\* K*exp(-r*T), rounded once
C6_RoundedOnce ==
    (last.fn = "BS_put" /\ ValidParams(last.p)) =>
        last.res.price = Round5(BS_call_price(last.p) - S0Fx(last.p)
                                + FMul(KFx(last.p), Discount(last.p)))

\* C7: every discounted payoff of a Monte Carlo call is non-negative, and so
\* is the price the call returns
C7_NonNegativePrice ==
    (last.fn \in MCFns /\ ValidCall(last)) =>
        /\ \A i \in DOMAIN last.res.X : last.res.X[i] >= 0
        /\ last.res.status = "ok"
        /\ last.res.price >= 0

\* C8: the standard error a Monte Carlo call returns is >= 0 for every n >= 1
\* and every valid parameter set
C8_NonNegativeStdError ==
    (last.fn \in MCFns /\ ValidCall(last)) =>
        (last.res.status = "ok" /\ last.res.se >= 0)

\* C9: for valid parameters no pricer returns NaN as a price or standard
\* error, the Asian pricers with floor(12*T) = 0 included
C9_NoSilentNaN == (last.fn # "none" /\ ValidCall(last)) => last.res.status # "nan"

C10_Case == last.fn \in AsianMCFns

\* C10: each simulated path of an Asian pricer has exactly m = floor(12*T)
\* prices, at the strictly increasing times i/12 for i = 1..m, all within
\* [0, T]; the step is 1/12 throughout and the last partial month is dropped
C10_MonthlyMonitoring ==
    C10_Case =>
        LET m     == (Months * last.p.T24) \div TDen
            times == last.res.times
        IN  /\ Len(last.res.paths) = last.n
            /\ \A i \in 1 .. last.n : Len(last.res.paths[i]) = m
            /\ Len(times) = m
            /\ \A j \in 1 .. m :
                /\ times[j] * Months = j * TDen
                /\ 0 <= times[j] /\ times[j] <= last.p.T24
                /\ times[j] - (IF j = 1 THEN 0 ELSE times[j - 1]) = StepLen
            /\ last.p.T24 - m * StepLen < StepLen

C10_Witness ==
    /\ C10_Case
    /\ last.n >= 1
    /\ Len(last.res.times) >= 2
    /\ last.res.times[Len(last.res.times)] < last.p.T24

ClosedFormFns == {"BS_call", "BS_put", "BS_asian_geometric_call"}

\* the comparison cell of the arithmetic Asian call, its bs_price assigned
C11_Case == sweep.fn = "MC_asian_arithmetic_call" /\ sweep.pc \in {"for", "df"}

HundredFold(i, j) ==
    /\ i \in DOMAIN sweep.rows
    /\ j \in DOMAIN sweep.rows
    /\ sweep.rows[j].n = 100 * sweep.rows[i].n
    /\ sweep.rows[i].mc_call.status = "ok"
    /\ sweep.rows[j].mc_call.status = "ok"

\* C12 as stated: a hundred times the sample size divides the reported
\* standard error by a factor between 8 and 12.
C12_FactorBetween8And12 ==
    \A i, j \in DOMAIN sample_size :
        HundredFold(i, j) =>
            /\ 8 * sweep.rows[j].mc_call.se <= sweep.rows[i].mc_call.se
            /\ sweep.rows[i].mc_call.se <= 12 * sweep.rows[j].mc_call.se

\* C12, amended: the standard error before rounding is the deviation of the
\* payoffs divided by sqrt(n), so between n and 100 n trials it falls by 10
\* times the ratio of the two deviations, se_n * std_100n = 10 * se_100n * std_n
\* to within the rounding of the arithmetic, and by 10 when the two samples
\* have the same deviation.
C12_TenTimesDeviationRatio ==
    \A i, j \in DOMAIN sample_size :
        HundredFold(i, j) =>
            LET a     == sweep.rows[i].mc_call
                b     == sweep.rows[j].mc_call
                std_a == NpStd(a.X)
                std_b == NpStd(b.X)
            IN  /\ Abs(FMul(a.rawSe, std_b) - 10 * FMul(b.rawSe, std_a)) <= 5 * Unit
                /\ std_a = std_b => Abs(a.rawSe - 10 * b.rawSe) <= Unit

\* a table with two rows a hundred times apart whose payoffs both vary
C12_Witness ==
    \E i, j \in DOMAIN sample_size :
        /\ HundredFold(i, j)
        /\ sweep.rows[i].mc_call.se > 0
        /\ sweep.rows[j].mc_call.se > 0
        /\ sweep.rows[i].mc_call.se # 10 * sweep.rows[j].mc_call.se

C13_Case == last.fn = "MC_call_antithetic"

\* C13: an antithetic call with declared size n takes n / 2 draws from the
\* stream; the paths come in pairs, the first of a pair from a draw Z and the
\* second from -Z, the same draw negated; each sample is the average of the
\* two payoffs of a pair; price and standard error are the mean and the
\* deviation of these n / 2 samples, and the reported count is n / 2.
C13_AntitheticPairs ==
    C13_Case =>
        LET pairs == last.n \div 2
            Z     == StandardNormal(last.at, pairs)
            res   == last.res
        IN  /\ last.draws = pairs
            /\ res.count = pairs
            /\ Len(res.X) = pairs
            /\ Len(res.paths) = 2 * pairs
            /\ \A i \in 1 .. pairs :
                   /\ res.paths[2 * i - 1] = <<TerminalPrice(last.p, Z[i])>>
                   /\ res.paths[2 * i] = <<TerminalPrice(last.p, -Z[i])>>
                   /\ res.X[i] = DivRound(CallPayoff(last.p, res.paths[2 * i - 1][1])
                                          + CallPayoff(last.p, res.paths[2 * i][1]), 2)
            /\ res.rawPrice = NpMean(res.X)
            /\ res.rawSe = FDiv(NpStd(res.X), FSqrt(pairs * Scale))

\* an antithetic call of two pairs whose paths differ within a pair and
\* whose samples differ between the pairs
C13_Witness ==
    /\ C13_Case
    /\ last.n = 4
    /\ last.res.count = 2
    /\ last.res.paths[1] # last.res.paths[2]
    /\ last.res.se > 0

C14_Case ==
    /\ last.fn = "MC_asian_arithmetic_call_control_variate"
    /\ last.res.status = "ok"

\* C14: a control-variate call simulates one set of paths; on each path it
\* computes the arithmetic payoff X and the geometric payoff Y, and it
\* reports mean(X) - b * (mean(Y) - E[Y]), where E[Y] is the value that
\* BS_asian_geometric_call returns for the same arguments.
C14_ControlVariateOnSamePath ==
    C14_Case =>
        LET res == last.res
        IN  /\ res.paths = AsianPaths(last.p, last.n, last.at)
            /\ Len(res.X) = last.n
            /\ Len(res.Y) = last.n
            /\ \A i \in 1 .. last.n :
                   /\ res.X[i] = AsianPayoff(last.p, NpMean(res.paths[i]))
                   /\ res.Y[i] = AsianPayoff(last.p, GMean(res.paths[i]))
            /\ res.EY = BS_asian_geometric_call(last.p).price
            /\ res.rawPrice = NpMean(res.X) - FMul(res.b, NpMean(res.Y) - res.EY)
            /\ res.price = Round5(res.rawPrice)

\* a control-variate call over two paths of three months whose payoffs
\* differ, with a coefficient other than 1 and a correction that is not zero
C14_Witness ==
    /\ C14_Case
    /\ last.n = 2
    /\ MonitoringCount(last.p) = 3
    /\ last.res.X # last.res.Y
    /\ last.res.b # Scale
    /\ NpMean(last.res.Y) # last.res.EY
    /\ last.res.rawPrice # NpMean(last.res.X)

\* the log-increment of geometric Brownian motion over dt24 / 24 of a year
GbmIncrement(p, dt24, z) ==
    LET sigma == SigmaFx(p)
        dt    == DivRound(dt24 * Scale, TDen)
    IN  FMul(RFx(p) - FMul(Scale \div 2, FMul(sigma, sigma)), dt)
        + FMul(FMul(sigma, FSqrt(dt)), z)

RECURSIVE SteppedPath(_, _, _, _)
\* the prices from stepping S_i = S_{i-1} * exp(increment_i) over the draws zs
SteppedPath(p, dt24, s0, zs) ==
    IF zs = <<>> THEN <<>>
    ELSE LET s1 == FMul(s0, FExp(GbmIncrement(p, dt24, Head(zs))))
         IN  <<s1>> \o SteppedPath(p, dt24, s1, Tail(zs))

\* the step of the paths of pricer fn, in 24ths of a year
StepOf(fn, p) == IF fn \in AsianMCFns THEN StepLen ELSE p.T24

\* the number of prices of a path of pricer fn
ColumnsOf(fn, p) == IF fn \in AsianMCFns THEN MonitoringCount(p) ELSE 1

\* the draws of path i of call c, the stream read row by row
DrawsOfPath(c, i) ==
    LET t == ColumnsOf(c.fn, c.p)
        Z == StandardNormal(c.at, c.n * t)
    IN  [j \in 1 .. t |-> Z[(i - 1) * t + j]]

C15_Case == last.fn \in MCFns /\ ValidCall(last) /\ last.draws > 0

\* C15: every simulated path is the one the recurrence gives: starting
\* from S_0, the logarithm of each price over the one before it is
\* (r - sigma^2 / 2) * dt + sigma * sqrt(dt) * Z for the draw of that step,
\* dt = 1/12 for the Asian pricers and dt = T for the European ones, and
\* each price is the one that stepping the recurrence gives, both to within
\* the rounding of the arithmetic.
C15_GbmRecurrence ==
    C15_Case =>
        /\ Len(last.res.paths) = last.n
        /\ \A i \in 1 .. last.n :
               LET path == last.res.paths[i]
                   zs   == DrawsOfPath(last, i)
                   dt24 == StepOf(last.fn, last.p)
                   step == SteppedPath(last.p, dt24, S0Fx(last.p), zs)
               IN  /\ Len(path) = ColumnsOf(last.fn, last.p)
                   /\ \A j \in DOMAIN path :
                          LET before == IF j = 1 THEN S0Fx(last.p) ELSE path[j - 1]
                          IN  /\ Abs(FLn(FDiv(path[j], before))
                                     - GbmIncrement(last.p, dt24, zs[j])) <= Unit
                              /\ Abs(path[j] - step[j]) <= 20 * Unit

\* an Asian call over paths of three steps whose draws differ
C15_Witness ==
    /\ C15_Case
    /\ last.fn \in AsianMCFns
    /\ ColumnsOf(last.fn, last.p) >= 3
    /\ \E j \in 2 .. 3 : DrawsOfPath(last, 1)[j] # DrawsOfPath(last, 1)[1]
    /\ last.res.paths[1][3] # last.res.paths[1][1]

\* the mean of the monitoring times, (1 / m) * sum of t_i, in years
MeanMonitoringTime(p) ==
    DivRound(Sum(MonitoringTimes(p)) * Scale, TDen * MonitoringCount(p))

\* sigma^2 / m^2 * sum of (2 m - 2 i + 1) * t_i
WeightedMonitoringVariance(p) ==
    LET m     == MonitoringCount(p)
        times == MonitoringTimes(p)
    IN  DivRound(FMul(SigmaFx(p), SigmaFx(p))
                     * Sum([i \in 1 .. m |-> (2 * m - 2 * i + 1) * times[i]]),
                 TDen * m * m)

C16_Case ==
    /\ last.fn = "BS_asian_geometric_call"
    /\ ValidParams(last.p)
    /\ MonitoringCount(last.p) >= 1

\* C16: for a call of BS_asian_geometric_call with m = floor(12 T) >= 1
\* monitoring times t_i = i / 12, the t_bar of the code, (m + 1) / 24, is the
\* mean of the monitoring times, and the square of its sigma_bar,
\* sigma^2 / m^2 * m (m + 1) (2 m + 1) / 72, is sigma^2 / m^2 times the sum
\* of (2 m - 2 i + 1) t_i; the price returned is the one computed from them.
C16_ClosedFormsEqualSums ==
    C16_Case =>
        /\ \A i \in 1 .. MonitoringCount(last.p) :
               MonitoringTimes(last.p)[i] * Months = i * TDen
        /\ t_bar_of(last.p) = MeanMonitoringTime(last.p)
        /\ sigma_bar_sq_of(last.p) = WeightedMonitoringVariance(last.p)
        /\ last.res.rawPrice = BS_asian_geometric_call_price(last.p)

\* a closed-form call over six monitoring times
C16_Witness ==
    /\ C16_Case
    /\ MonitoringCount(last.p) = 6
    /\ last.res.status = "ok"
    /\ last.res.price > 0

\* the batches the trials of a call are split into
Batches == {1, 2, 3}

\* the accumulator of the payoffs X[i] of the trials i in batch: their count,
\* their sum and the sum of their squares
Accumulator(X, batch) ==
    [count |-> Cardinality(batch),
     sum   |-> Sum([i \in 1 .. Len(X) |-> IF i \in batch THEN X[i] ELSE 0]),
     sumsq |-> Sum([i \in 1 .. Len(X) |-> IF i \in batch THEN FMul(X[i], X[i]) ELSE 0])]

Merge(a, b) ==
    [count |-> a.count + b.count, sum |-> a.sum + b.sum, sumsq |-> a.sumsq + b.sumsq]

\* the mean and the variance an accumulator stands for
AccumulatorMean(a) == DivRound(a.sum, a.count)

AccumulatorVar(a) ==
    DivRound(a.sumsq, a.count) - FMul(AccumulatorMean(a), AccumulatorMean(a))

\* the accumulators merged in the order o, from the left and from the right
MergedLeft(acc, o) == Merge(Merge(acc[o[1]], acc[o[2]]), acc[o[3]])

MergedRight(acc, o) == Merge(acc[o[1]], Merge(acc[o[2]], acc[o[3]]))

\* the ways of splitting n trials into the batches, and of ordering the batches
Splits(n) == [1 .. n -> Batches]

MergeOrders == {o \in [1 .. 3 -> Batches] : \A i, j \in 1 .. 3 : o[i] = o[j] => i = j}

C17_Case == last.fn \in MCFns /\ last.res.status = "ok"

C18_Case == last.fn \in MCFns

\* C18: a Monte Carlo call that returns, returns a price and a standard
\* error aggregated from exactly the n payoffs of n simulated paths, for which
\* it took all its draws; a call stopped before its return statement returns
\* nothing, whether or not it had taken its draws; so no price is ever
\* computed from fewer than n trials.
C18_AllTrialsOrNoPrice ==
    C18_Case =>
        LET res == last.res
        IN  \/ /\ res.status = "none"
               /\ res.X = <<>>
               /\ last.draws \in {0, DrawsOf(last.fn, last.p, last.n)}
            \/ /\ res.status \in {"ok", "nan"}
               /\ last.draws = DrawsOf(last.fn, last.p, last.n)
               /\ Len(res.paths) = last.n
               /\ Len(res.X) = last.n
               /\ res.status = "ok" =>
                      /\ last.n >= 1
                      /\ res.rawPrice = NpMean(res.X)
                      /\ res.rawSe = FDiv(NpStd(res.X), FSqrt(last.n * Scale))

\* a call that returned an estimate of two trials with different payoffs,
\* made after earlier calls had taken draws
C18_Witness ==
    /\ C18_Case
    /\ last.res.status = "ok"
    /\ last.n = 2
    /\ Len(last.res.X) = 2
    /\ last.res.X[1] # last.res.X[2]
    /\ last.pos > 0

\* a call stopped after its draws: nothing returned
C18_WitnessStopped ==
    /\ C18_Case
    /\ last.res.status = "none"
    /\ last.draws > 0

\* the paths pricer fn simulates for n trials from generator state x
PathsOf(fn, p, n, x) ==
    IF fn \in AsianMCFns THEN AsianPaths(p, n, x) ELSE EuropeanPaths(p, n, x)

\* the normals the first j calls of the running cell need: one for each
\* price of each path
NormalsOfRows(j) == ColumnsOf(sweep.fn, sweep.p) * Sum(SubSeq(sample_size, 1, j))

C19_Case == sweep.pc \in {"for", "df"} /\ sweep.rows # <<>>

\* C19: in a comparison cell, which seeds the stream once and calls its
\* Monte Carlo pricer for each sample size in order, the j-th call simulates
\* its n_j paths from exactly the n_j (European) or n_j * floor(12 T) (Asian)
\* normals that follow those of the earlier calls in the seeded stream, so
\* that no normal is used by two calls; the last call made found the stream
\* at the total of the earlier calls' draws and left it at the total of all
\* calls' draws.
C19_DrawsInOrder ==
    C19_Case =>
        LET k == Len(sweep.rows)
        IN  /\ seed = SweepSeed
            /\ \A j \in 1 .. k :
                   /\ Len(sweep.rows[j].mc_call.paths) = sample_size[j]
                   /\ sweep.rows[j].mc_call.paths =
                          PathsOf(sweep.fn, sweep.p, sample_size[j],
                                  RngAfter(SeedState(SweepSeed), NormalsOfRows(j - 1)))
            /\ last.fn = sweep.fn
            /\ last.pos = NormalsOfRows(k - 1)
            /\ last.draws = NormalsOfRows(k) - NormalsOfRows(k - 1)
            /\ pos = NormalsOfRows(k)
            /\ rng = RngAfter(SeedState(SweepSeed), NormalsOfRows(k))

\* the finished cell of an Asian pricer over paths of three prices
C19_Witness ==
    /\ C19_Case
    /\ sweep.pc = "df"
    /\ sweep.fn \in AsianMCFns
    /\ ColumnsOf(sweep.fn, sweep.p) = 3
    /\ pos = 3 * Sum(sample_size)

\* a step that is a call of a closed-form pricer
ClosedFormStep == last'.fn \in ClosedFormFns /\ last' # last

\* C20: a call of BS_call, BS_put or BS_asian_geometric_call leaves the
\* generator, the seed and the position in the stream as it found them, so
\* that every Monte Carlo pricer called after it returns what it would have
\* returned before it.
C20_ClosedFormLeavesStream ==
    [][ClosedFormStep =>
           /\ rng' = rng
           /\ seed' = seed
           /\ pos' = pos
           /\ last'.at = rng
           /\ \A p \in AllParams, n \in Trials :
                  /\ MC_call_table[p, n, rng'] = MC_call_table[p, n, rng]
                  /\ MC_put_table[p, n, rng'] = MC_put_table[p, n, rng]
                  /\ MC_asian_geometric_call_table[p, n, rng']
                         = MC_asian_geometric_call_table[p, n, rng]
                  /\ MC_asian_arithmetic_call_table[p, n, rng']
                         = MC_asian_arithmetic_call_table[p, n, rng]]_vars

\* a closed-form call made after seeding and after draws were taken, the
\* stream still where the call found it
C20_Witness ==
    /\ last.fn \in ClosedFormFns
    /\ last.res.status = "ok"
    /\ last.seed # Unseeded
    /\ seed = last.seed
    /\ last.pos > 0
    /\ pos = last.pos
    /\ rng = last.at

\* MC_call and MC_put, in either order, were invoked with the same arguments
\* from the same state of the stream: they consumed the same draws Z
C21_Case ==
    /\ SameArgs("MC_call", "MC_put") \/ SameArgs("MC_put", "MC_call")
    /\ prev.at = last.at
    /\ last.n >= 1
    /\ prev.res.status = "ok"
    /\ last.res.status = "ok"

\* the MC_call invocation and the MC_put invocation of the pair
C21_CallOf == IF prev.fn = "MC_call" THEN prev ELSE last

C21_PutOf == IF prev.fn = "MC_put" THEN prev ELSE last

\* C21: put-call parity holds path by path: for the same draw and the same
\* (S_0, r, sigma, K, T) the discounted call payoff of MC_call minus the
\* discounted put payoff of MC_put equals exp(-r*T) * (S_T - K), and at most
\* one of the two payoffs is non-zero
C21_PathwiseParity ==
    C21_Case =>
        \A i \in 1 .. last.n :
            /\ C21_CallOf.res.paths[i] = C21_PutOf.res.paths[i]
            /\ C21_CallOf.res.X[i] - C21_PutOf.res.X[i]
                   = FMul(Discount(last.p), C21_CallOf.res.paths[i][1] - KFx(last.p))
            /\ C21_CallOf.res.X[i] = 0 \/ C21_PutOf.res.X[i] = 0

\* a pair in which one path ends in the money for the call and another in
\* the money for the put
C21_Witness ==
    /\ C21_Case
    /\ \E i \in 1 .. last.n : C21_CallOf.res.X[i] > 0 /\ C21_PutOf.res.X[i] = 0
    /\ \E i \in 1 .. last.n : C21_PutOf.res.X[i] > 0 /\ C21_CallOf.res.X[i] = 0

\* MC_asian_arithmetic_call and MC_asian_geometric_call, in either order, were
\* invoked with the same arguments from the same state of the stream
C22_Case ==
    /\ \/ SameArgs("MC_asian_arithmetic_call", "MC_asian_geometric_call")
       \/ SameArgs("MC_asian_geometric_call", "MC_asian_arithmetic_call")
    /\ prev.at = last.at
    /\ ValidCall(last)

\* the arithmetic invocation and the geometric invocation of the pair
C22_ArithmeticOf == IF prev.fn = "MC_asian_arithmetic_call" THEN prev ELSE last

C22_GeometricOf == IF prev.fn = "MC_asian_geometric_call" THEN prev ELSE last

\* C22: from the same stream state and with the same arguments the two Asian
\* pricers build identical paths, every per-path arithmetic payoff is >= the
\* geometric payoff, and the arithmetic price returned is >= the geometric
\* price returned
C22_ArithmeticAtLeastGeometric ==
    C22_Case =>
        /\ C22_ArithmeticOf.res.paths = C22_GeometricOf.res.paths
        /\ C22_ArithmeticOf.res.status = "ok"
        /\ C22_GeometricOf.res.status = "ok"
        /\ \A i \in 1 .. last.n : C22_ArithmeticOf.res.X[i] >= C22_GeometricOf.res.X[i]
        /\ C22_ArithmeticOf.res.price >= C22_GeometricOf.res.price

\* C22, what does hold: the paths of the pair are identical whenever the
\* pricers return numbers, and on paths of two monitoring dates and more the
\* arithmetic payoffs and price are >= the geometric ones
C22_HoldsWithSeveralDates ==
    (C22_Case /\ MonitoringCount(last.p) >= 1) =>
        /\ C22_ArithmeticOf.res.status = "ok"
        /\ C22_GeometricOf.res.status = "ok"
        /\ C22_ArithmeticOf.res.paths = C22_GeometricOf.res.paths
        /\ MonitoringCount(last.p) >= 2 =>
               /\ \A i \in 1 .. last.n :
                      C22_ArithmeticOf.res.X[i] >= C22_GeometricOf.res.X[i]
               /\ C22_ArithmeticOf.res.price >= C22_GeometricOf.res.price

\* a pair of a maturity below one month: both pricers return NaN
C22_NaNPair == C22_Case /\ C22_ArithmeticOf.res.status = "nan"

\* a pair of several monitoring dates with a path in the money
C22_SeveralDatesPair ==
    /\ C22_Case
    /\ MonitoringCount(last.p) >= 2
    /\ \E i \in 1 .. last.n : C22_GeometricOf.res.X[i] > 0

C23_Case == last.fn = "BS_put" /\ ValidParams(last.p)

\* C23: BS_put returns a non-negative price for every valid
\* (S_0, r, sigma, K, T), puts far out of the money included
C23_PutNonNegative == C23_Case => (last.res.status = "ok" /\ last.res.price >= 0)

\* a put far out of the money priced at zero
C23_DeepPutAtZero ==
    /\ C23_Case
    /\ last.p \in {DeepOption(5000), DeepOption(20000)}
    /\ last.res.price = 0

\* C23, what does hold: parity on the call price before its rounding, rounded
\* once, is non-negative
C23_RoundedOnceNonNegative ==
    C23_Case =>
        \A side \in Sides :
            RoundFloat(BS_call_price(last.p) - S0Fx(last.p)
                       + FMul(KFx(last.p), Discount(last.p)), side) >= 0

====
